---- MODULE Spec2Model ----
(***************************************************************************)
(* Model of extract_stackoverflow.py: a script of three sequential stages. *)
(*   1. the question retrieval loop   (lines 18-92)                        *)
(*   2. the accepted answers batch loop (lines 94-160)                     *)
(*   3. the CSV writing loop          (lines 171-199)                      *)
(* The remote API is the environment: every response is an input chosen    *)
(* from a small set.  The variable io is the trace of the script's         *)
(* observable effects: requests sent, responses received, sleeps.          *)
(***************************************************************************)
EXTENDS Integers, Sequences, FiniteSets, TLC

VARIABLES
    pc,                   \* position of the script: which stage runs next
    marker,               \* line 19
    batch_num,            \* line 20
    all_questions,        \* line 18
    accepted_answer_ids,  \* line 104
    accepted_answers,     \* line 105: a map from answer_id to body
    i,                    \* line 109: start index of the current chunk
    csv,                  \* line 180: the output file, a sequence of rows
    io,                   \* requests, responses and sleeps, in order
    dataset               \* the environment: which questions the server holds

vars == <<pc, marker, batch_num, all_questions, accepted_answer_ids,
          accepted_answers, i, csv, io, dataset>>

----------------------------------------------------------------------------
(* Bounds of the model *)

\* most question requests of a run
MaxQRequests == 3
\* most rate-limit responses the server gives to question requests
MaxThrottles == 1
\* number of questions of the large page the server can return
BigLen == 150

----------------------------------------------------------------------------
(* Program constants *)

None == -1
Absent == "<absent>"
pagesize == 100
batch_size == 100
FallbackWait == 60
MinDelayMs == 500
csv_fieldnames == <<"Title", "Description", "Tags", "Accepted Answer", "is_answered">>

\* time.sleep takes seconds; the trace keeps milliseconds (0.5 s = 500)
SleepMs(seconds) == seconds * 1000

----------------------------------------------------------------------------
(* Helpers on sequences *)

Range(s) == {s[k] : k \in 1..Len(s)}

MinOf(S) == CHOOSE m \in S : \A x \in S : m <= x

\* min(item["creation_date"] for item in items)
MinCreation(items) == MinOf({items[k].creation_date : k \in 1..Len(items)})

----------------------------------------------------------------------------
(* re.search(r"available in (\d+) seconds", msg), int(match.group(1)).     *)
(* A message is a sequence of tokens: the two literal phrases, single      *)
(* decimal digits, and other text.                                         *)

AVAIL == "available in "
SECS == " seconds"
DigitChars == <<"0", "1", "2", "3", "4", "5", "6", "7", "8", "9">>
IsDigit(c) == c \in Range(DigitChars)
DigitVal(c) == (CHOOSE k \in 1..10 : DigitChars[k] = c) - 1

RECURSIVE DigitRunEnd(_, _)
\* index of the last token of the longest run of digits starting at s (s-1: none)
DigitRunEnd(msg, s) ==
    IF s <= Len(msg) /\ IsDigit(msg[s]) THEN DigitRunEnd(msg, s + 1) ELSE s - 1

RECURSIVE IntOf(_)
\* int("...") of a non-empty digit sequence
IntOf(ds) ==
    IF Len(ds) = 0 THEN 0
    ELSE 10 * IntOf(SubSeq(ds, 1, Len(ds) - 1)) + DigitVal(ds[Len(ds)])

MatchAt(msg, s) ==
    /\ msg[s] = AVAIL
    /\ DigitRunEnd(msg, s + 1) >= s + 1
    /\ DigitRunEnd(msg, s + 1) + 1 <= Len(msg)
    /\ msg[DigitRunEnd(msg, s + 1) + 1] = SECS

\* the advertised wait in seconds, None when the pattern does not occur
ParseWait(msg) ==
    LET starts == {s \in 1..Len(msg) : MatchAt(msg, s)}
    IN  IF starts = {} THEN None
        ELSE LET s == MinOf(starts)
             IN  IntOf(SubSeq(msg, s + 1, DigitRunEnd(msg, s + 1)))

\* the advertised wait ignored: always the fallback
ThrottleWait_Fallback(msg) == FallbackWait

\* lines 46-55 / 127-136: the time slept on a throttle_violation
ThrottleWait(msg) ==
    IF ParseWait(msg) # None THEN ParseWait(msg) ELSE FallbackWait

----------------------------------------------------------------------------
(* The environment: what the server can answer *)

Item(q, t, a, title, answered) ==
    [question_id |-> q, creation_date |-> t, accepted_answer_id |-> a,
     title |-> title, body |-> "<p>text</p>", tags |-> <<"nlp", "python">>,
     is_answered |-> answered]

I1 == Item(1, 3, 7, "A", TRUE)
I2 == Item(2, 2, None, Absent, FALSE)
I3 == Item(3, 1, 8, "C", TRUE)
I4 == Item(4, 1, 7, "D", FALSE)

\* a page of BigLen questions, each with its own accepted answer
BigPage == [k \in 1..BigLen |-> Item(100 + k, 3, 1000 + k, "B", TRUE)]
\* an older page of exactly one batch of such questions
FullPage == [k \in 1..batch_size |-> Item(500 + k, 1, 2000 + k, "F", TRUE)]

Pages(ds) ==
    IF ds = "small"
    THEN { <<>>, <<I1>>, <<I3>>, <<I4>>, <<I1, I2>>, <<I2, I3>> }
    ELSE { <<>>, BigPage, FullPage }

M5 == <<"too many requests from this IP, more requests ", AVAIL, "5", SECS>>
M10 == <<AVAIL, "1", "0", SECS>>
M3 == <<AVAIL, "5", AVAIL, "3", SECS>>
MBad == <<AVAIL, SECS>>

Messages(ds) == IF ds = "small" THEN {M5, M3, MBad} ELSE {M10}

Response(status, parses, name, msg, items, backoff) ==
    [status |-> status, parses |-> parses, error_name |-> name,
     error_message |-> msg, items |-> items, backoff |-> backoff]

OkPage(items, backoff) == Response(200, TRUE, "", <<>>, items, backoff)
Throttled(msg) == Response(400, TRUE, "throttle_violation", msg, <<>>, None)

Failures ==
    { Response(500, TRUE, "internal_error", <<>>, <<>>, None),
      Response(502, FALSE, "", <<>>, <<>>, None),
      Response(200, FALSE, "", <<>>, <<>>, None) }

\* what the server can answer to a question request
QResponses(ds) ==
    {OkPage(p, None) : p \in Pages(ds)}
    \cup (IF ds = "small" THEN {OkPage(<<I2>>, 2)} ELSE {})
    \cup {Throttled(m) : m \in Messages(ds)}
    \cup Failures

Answer(id, body) == [answer_id |-> id, body |-> body]

\* what the server can answer to a request for answers
AResponses(ds) ==
    (IF ds = "small"
     THEN { OkPage(<<>>, None),
            OkPage(<<Answer(7, "<p>seven</p>")>>, None),
            OkPage(<<Answer(7, Absent)>>, 3),
            Throttled(M5), Throttled(MBad) }
     ELSE { OkPage(<<Answer(1001, "<p>draft</p>"), Answer(1001, "<p>answer</p>"),
                     Answer(2100, "<p>last</p>")>>, None),
            Throttled(M10) })
    \cup Failures

EmptyMap == [id \in {} |-> ""]

----------------------------------------------------------------------------
(* Events of the trace *)

\* the bound forgotten: every request asks for the newest questions
QParams_Unbounded(m) ==
    [order |-> "desc", sort |-> "creation", tagged |-> "nlp",
     site |-> "stackoverflow", pagesize |-> pagesize, filter |-> "withbody",
     max |-> None]

\* the bound without its - 1: the boundary second is asked for again
QParams_Inclusive(m) ==
    [order |-> "desc", sort |-> "creation", tagged |-> "nlp",
     site |-> "stackoverflow", pagesize |-> pagesize, filter |-> "withbody",
     max |-> IF m # None THEN m ELSE None]

\* lines 25-37: the parameters of a question request
QParams(m) ==
    [order |-> "desc", sort |-> "creation", tagged |-> "nlp",
     site |-> "stackoverflow", pagesize |-> pagesize, filter |-> "withbody",
     max |-> IF m # None THEN m - 1 ELSE None]

QReq(m) == [ev |-> "qreq", params |-> QParams(m)]
QResp(r) == [ev |-> "qresp", resp |-> r]
Sleep(ms) == [ev |-> "sleep", ms |-> ms]

QRequestCount == Cardinality({k \in 1..Len(io) : io[k].ev = "qreq"})
QThrottleCount ==
    Cardinality({k \in 1..Len(io) :
        /\ io[k].ev = "qresp"
        /\ io[k].resp.status # 200
        /\ io[k].resp.parses
        /\ io[k].resp.error_name = "throttle_violation"})

----------------------------------------------------------------------------
Init ==
    /\ pc = "collect"
    /\ marker = None
    /\ batch_num = 1
    /\ all_questions = <<>>
    /\ accepted_answer_ids = <<>>
    /\ accepted_answers = EmptyMap
    /\ i = 0
    /\ csv = <<>>
    /\ io = <<>>
    /\ dataset \in {"small", "large"}

----------------------------------------------------------------------------
(* Stage 1: one iteration of the question retrieval loop, lines 24-92 *)

\* lines 41-55: rate limited; sleep and retry the same batch
QThrottle(r) ==
    /\ r.status # 200 /\ r.parses /\ r.error_name = "throttle_violation"
    /\ io' = io \o <<QReq(marker), QResp(r),
                     Sleep(SleepMs(ThrottleWait(r.error_message)))>>
    /\ UNCHANGED <<pc, marker, batch_num, all_questions>>

\* the abort that loses what was collected before it
QAbort_DropsPartial(r) ==
    /\ \/ r.status # 200 /\ ~r.parses
       \/ r.status # 200 /\ r.parses /\ r.error_name # "throttle_violation"
       \/ r.status = 200 /\ ~r.parses
    /\ io' = io \o <<QReq(marker), QResp(r)>>
    /\ pc' = "handoff"
    /\ all_questions' = <<>>
    /\ UNCHANGED <<marker, batch_num>>

\* lines 56-68: any other failure ends the loop
QAbort(r) ==
    /\ \/ r.status # 200 /\ ~r.parses
       \/ r.status # 200 /\ r.parses /\ r.error_name # "throttle_violation"
       \/ r.status = 200 /\ ~r.parses
    /\ io' = io \o <<QReq(marker), QResp(r)>>
    /\ pc' = "handoff"
    /\ UNCHANGED <<marker, batch_num, all_questions>>

\* lines 70-74: an empty page ends the loop
QEmpty(r) ==
    /\ r.status = 200 /\ r.parses /\ r.items = <<>>
    /\ io' = io \o <<QReq(marker), QResp(r)>>
    /\ pc' = "handoff"
    /\ UNCHANGED <<marker, batch_num, all_questions>>

\* the creation time of the first question of the page taken for the oldest
NewMarker_First(items) == items[1].creation_date

\* line 79: new_marker
NewMarker(items) == MinCreation(items)

\* the check with > for >=: a page that repeats the marker is taken for progress
NoProgress_Strict(m, items) == m # None /\ MinCreation(items) > m

\* lines 79-80: the duplicate-marker check
NoProgress(m, items) == m # None /\ NewMarker(items) >= m

\* lines 76-82: the page is kept, then the duplicate-marker check ends the loop
QNoProgress(r) ==
    /\ r.status = 200 /\ r.parses /\ r.items # <<>>
    /\ NoProgress(marker, r.items)
    /\ all_questions' = all_questions \o r.items
    /\ io' = io \o <<QReq(marker), QResp(r)>>
    /\ pc' = "handoff"
    /\ UNCHANGED <<marker, batch_num>>

\* the page replaces the list instead of extending it
QPage_Overwrites(r) ==
    /\ r.status = 200 /\ r.parses /\ r.items # <<>>
    /\ ~NoProgress(marker, r.items)
    /\ all_questions' = r.items
    /\ marker' = MinCreation(r.items)
    /\ batch_num' = batch_num + 1
    /\ io' = io \o <<QReq(marker), QResp(r),
                     Sleep(IF r.backoff # None THEN SleepMs(r.backoff)
                           ELSE MinDelayMs)>>
    /\ UNCHANGED pc

\* the server's backoff ignored: always the fixed delay
Pacing_Fixed(r) == MinDelayMs

\* lines 88-92 / 154-158: the time slept after a page, in milliseconds
Pacing(r) == IF r.backoff # None THEN SleepMs(r.backoff) ELSE MinDelayMs

\* lines 76-92: the page is kept, the marker moves, the loop paces itself
QPage(r) ==
    /\ r.status = 200 /\ r.parses /\ r.items # <<>>
    /\ ~NoProgress(marker, r.items)
    /\ all_questions' = all_questions \o r.items
    /\ marker' = NewMarker(r.items)
    /\ batch_num' = batch_num + 1
    /\ io' = io \o <<QReq(marker), QResp(r), Sleep(Pacing(r))>>
    /\ UNCHANGED pc

QIteration ==
    /\ pc = "collect"
    /\ QRequestCount < MaxQRequests
    /\ \E r \in QResponses(dataset) :
        /\ r.error_name = "throttle_violation" => QThrottleCount < MaxThrottles
        /\ \/ QThrottle(r)
           \/ QAbort(r)
           \/ QEmpty(r)
           \/ QNoProgress(r)
           \/ QPage(r)
    /\ UNCHANGED <<accepted_answer_ids, accepted_answers, i, csv, dataset>>

----------------------------------------------------------------------------
(* Lines 94-105: the end of stage 1 and the identifiers to resolve *)

HasAccepted(q) == q.accepted_answer_id # None

\* positions of qs that insert a new key into the dict (first occurrences)
Inserting(qs) ==
    {k \in 1..Len(qs) : \A j \in 1..(k - 1) : qs[j].question_id # qs[k].question_id}

\* keys of a dict built from the questions qs, in insertion order
DictKeys(qs) ==
    LET first == Inserting(qs)
        kept == SelectSeq([k \in 1..Len(qs) |-> k], LAMBDA k : k \in first)
    IN  [n \in 1..Len(kept) |-> qs[kept[n]].question_id]

\* line 103: the value kept for a key is the one of its last occurrence
DictValue(qs, key) ==
    LET last == CHOOSE k \in 1..Len(qs) :
                    /\ qs[k].question_id = key
                    /\ \A j \in (k + 1)..Len(qs) : qs[j].question_id # key
    IN  qs[last].accepted_answer_id

\* lines 103-104: list(accepted_ids.values())
AcceptedAnswerIds(questions) ==
    LET qs == SelectSeq(questions, HasAccepted)
        keys == DictKeys(qs)
    IN  [k \in 1..Len(keys) |-> DictValue(qs, keys[k])]

\* the exit forgotten: the script goes on and writes an empty file
ExitEmpty_WritesHeader ==
    /\ pc = "handoff"
    /\ all_questions = <<>>
    /\ pc' = "write"
    /\ UNCHANGED <<marker, batch_num, all_questions, accepted_answer_ids,
                   accepted_answers, i, csv, io, dataset>>

\* lines 94-97: nothing retrieved, the script exits
ExitEmpty ==
    /\ pc = "handoff"
    /\ all_questions = <<>>
    /\ pc' = "exited"
    /\ UNCHANGED <<marker, batch_num, all_questions, accepted_answer_ids,
                   accepted_answers, i, csv, io, dataset>>

\* the list rebound to the questions that have an accepted answer
Handoff_KeepsAccepted ==
    /\ pc = "handoff"
    /\ all_questions # <<>>
    /\ all_questions' = SelectSeq(all_questions, HasAccepted)
    /\ accepted_answer_ids' = AcceptedAnswerIds(all_questions)
    /\ accepted_answers' = EmptyMap
    /\ i' = 0
    /\ pc' = "resolve"
    /\ UNCHANGED <<marker, batch_num, csv, io, dataset>>

\* lines 94-108
Handoff ==
    /\ pc = "handoff"
    /\ all_questions # <<>>
    /\ accepted_answer_ids' = AcceptedAnswerIds(all_questions)
    /\ accepted_answers' = EmptyMap
    /\ i' = 0
    /\ pc' = "resolve"
    /\ UNCHANGED <<marker, batch_num, all_questions, csv, io, dataset>>

----------------------------------------------------------------------------
(* Stage 2: one iteration of the accepted answers batch loop, lines 109-158 *)

\* the slice taken one identifier too long, overlapping the next chunk
BatchIds_Inclusive(ids, start) ==
    SubSeq(ids, start + 1,
           IF start + batch_size + 1 < Len(ids) THEN start + batch_size + 1
           ELSE Len(ids))

\* line 110: accepted_answer_ids[i:i+batch_size]
BatchIds(ids, start) ==
    SubSeq(ids, start + 1,
           IF start + batch_size < Len(ids) THEN start + batch_size ELSE Len(ids))

AReq(ids) == [ev |-> "areq", ids |-> ids, pagesize |-> pagesize,
              site |-> "stackoverflow", filter |-> "withbody"]
AResp(r) == [ev |-> "aresp", resp |-> r]

RECURSIVE StoreAnswers(_, _)
\* lines 151-152: accepted_answers[ans["answer_id"]] = ans.get("body", "")
StoreAnswers(map, answers) ==
    IF answers = <<>> THEN map
    ELSE LET ans == Head(answers)
             body == IF ans.body = Absent THEN "" ELSE ans.body
         IN  StoreAnswers(
                 [id \in DOMAIN map \cup {ans.answer_id} |->
                     IF id = ans.answer_id THEN body ELSE map[id]],
                 Tail(answers))

\* lines 122-136: rate limited; sleep, then continue with the for loop
AThrottle(r) ==
    /\ r.status # 200 /\ r.parses /\ r.error_name = "throttle_violation"
    /\ io' = io \o <<AReq(BatchIds(accepted_answer_ids, i)), AResp(r),
                     Sleep(SleepMs(ThrottleWait(r.error_message)))>>
    /\ i' = i + batch_size
    /\ UNCHANGED accepted_answers

\* break for continue: a failed chunk ends the whole loop
ASkip_Breaks(r) ==
    /\ \/ r.status # 200 /\ ~r.parses
       \/ r.status # 200 /\ r.parses /\ r.error_name # "throttle_violation"
       \/ r.status = 200 /\ ~r.parses
    /\ io' = io \o <<AReq(BatchIds(accepted_answer_ids, i)), AResp(r)>>
    /\ i' = i + batch_size * (1 + Len(accepted_answer_ids))
    /\ UNCHANGED accepted_answers

\* lines 137-149: any other failure; continue with the for loop
ASkip(r) ==
    /\ \/ r.status # 200 /\ ~r.parses
       \/ r.status # 200 /\ r.parses /\ r.error_name # "throttle_violation"
       \/ r.status = 200 /\ ~r.parses
    /\ io' = io \o <<AReq(BatchIds(accepted_answer_ids, i)), AResp(r)>>
    /\ i' = i + batch_size
    /\ UNCHANGED accepted_answers

\* lines 151-158: the answers are stored, the loop paces itself
AStore(r) ==
    /\ r.status = 200 /\ r.parses
    /\ accepted_answers' = StoreAnswers(accepted_answers, r.items)
    /\ io' = io \o <<AReq(BatchIds(accepted_answer_ids, i)), AResp(r),
                     Sleep(Pacing(r))>>
    /\ i' = i + batch_size

AIteration ==
    /\ pc = "resolve"
    /\ i < Len(accepted_answer_ids)
    /\ \E r \in AResponses(dataset) :
        \/ AThrottle(r)
        \/ ASkip(r)
        \/ AStore(r)
    /\ UNCHANGED <<pc, marker, batch_num, all_questions, accepted_answer_ids,
                   csv, dataset>>

\* lines 109, 160: range(0, len(accepted_answer_ids), batch_size) is exhausted
AFinished ==
    /\ pc = "resolve"
    /\ i >= Len(accepted_answer_ids)
    /\ pc' = "write"
    /\ UNCHANGED <<marker, batch_num, all_questions, accepted_answer_ids,
                   accepted_answers, i, csv, io, dataset>>

----------------------------------------------------------------------------
(* Stage 3: the CSV writing loop, lines 180-197 *)

RECURSIVE Join(_, _)
\* sep.join(parts), as the sequence of its pieces
Join(sep, parts) ==
    IF Len(parts) = 0 THEN <<>>
    ELSE IF Len(parts) = 1 THEN parts
    ELSE <<Head(parts), sep>> \o Join(sep, Tail(parts))

\* q.get(key, "")
GetOr(value, default) == IF value = Absent THEN default ELSE value

\* the lookup without its default: a missing answer prints as None
AcceptedAns_NoDefault(q, map) ==
    IF q.accepted_answer_id # None
    THEN IF q.accepted_answer_id \in DOMAIN map
         THEN map[q.accepted_answer_id] ELSE "None"
    ELSE ""

\* lines 187-189
AcceptedAns(q, map) ==
    IF q.accepted_answer_id # None
    THEN IF q.accepted_answer_id \in DOMAIN map
         THEN map[q.accepted_answer_id] ELSE ""
    ELSE ""

\* lines 184-197: the row written for question q
Row(q, map) ==
    <<GetOr(q.title, ""), GetOr(q.body, ""), Join(", ", q.tags),
      AcceptedAns(q, map), q.is_answered>>

\* only the questions with an accepted answer get a row
WriteCsv_SkipsUnaccepted ==
    /\ pc = "write"
    /\ csv' = <<csv_fieldnames>>
              \o [k \in 1..Len(SelectSeq(all_questions, HasAccepted)) |->
                    Row(SelectSeq(all_questions, HasAccepted)[k], accepted_answers)]
    /\ pc' = "done"
    /\ UNCHANGED <<marker, batch_num, all_questions, accepted_answer_ids,
                   accepted_answers, i, io, dataset>>

\* lines 180-197: header, then one row per question
WriteCsv ==
    /\ pc = "write"
    /\ csv' = <<csv_fieldnames>>
              \o [k \in 1..Len(all_questions) |-> Row(all_questions[k], accepted_answers)]
    /\ pc' = "done"
    /\ UNCHANGED <<marker, batch_num, all_questions, accepted_answer_ids,
                   accepted_answers, i, io, dataset>>

----------------------------------------------------------------------------
Next ==
    \/ QIteration
    \/ ExitEmpty
    \/ Handoff
    \/ AIteration
    \/ AFinished
    \/ WriteCsv

Spec == Init /\ [][Next]_vars

----------------------------------------------------------------------------
(* A server that answers what the request of lines 25-37 asks for: it     *)
(* holds a finite list of questions, newest first, and answers with the   *)
(* first pagesize of them created at or before max.  It never fails.      *)

\* a question of a held list, created at time t
HeldItem(k, t) == Item(k, t, 3000 + k, "H", TRUE)

\* more questions than one page, all created at different times
HeldDistinct == [k \in 1..BigLen |-> HeldItem(k, 1000 - k)]

\* one question more than a page: it was created in the same second as the
\* last question of the first page
HeldTies ==
    [k \in 1..(pagesize + 1) |->
        HeldItem(k, IF k <= pagesize THEN 1000 - k ELSE 1000 - pagesize)]

Held(ds) ==
    CASE ds = "held_few" -> <<I1, I2, I3>>
      [] ds = "held_distinct" -> HeldDistinct
      [] ds = "held_ties" -> HeldTies
      [] OTHER -> <<>>

HeldNames == {"held_none", "held_few", "held_distinct", "held_ties"}

\* order=desc, sort=creation, pagesize, max: the page the parameters select
ServedPage(held, params) ==
    LET eligible == SelectSeq(held, LAMBDA q :
                        params.max = None \/ q.creation_date <= params.max)
    IN  SubSeq(eligible, 1,
               IF Len(eligible) < params.pagesize THEN Len(eligible)
               ELSE params.pagesize)

InitServed ==
    /\ pc = "collect"
    /\ marker = None
    /\ batch_num = 1
    /\ all_questions = <<>>
    /\ accepted_answer_ids = <<>>
    /\ accepted_answers = EmptyMap
    /\ i = 0
    /\ csv = <<>>
    /\ io = <<>>
    /\ dataset \in HeldNames

\* lines 24-92, the response being the page the request selects
QServed ==
    /\ pc = "collect"
    /\ QRequestCount < MaxQRequests
    /\ \E r \in {OkPage(ServedPage(Held(dataset), QParams(marker)), None)} :
        \/ QEmpty(r)
        \/ QNoProgress(r)
        \/ QPage(r)
    /\ UNCHANGED <<accepted_answer_ids, accepted_answers, i, csv, dataset>>

NextServed ==
    \/ QServed
    \/ ExitEmpty
    \/ Handoff
    \/ AIteration
    \/ AFinished
    \/ WriteCsv

SpecServed == InitServed /\ [][NextServed]_vars

----------------------------------------------------------------------------
(* Reading the trace *)

\* the events the current step appends to the trace
NewEvents == SubSeq(io', Len(io) + 1, Len(io'))

Success(r) == r.status = 200 /\ r.parses
IsThrottle(r) == r.status # 200 /\ r.parses /\ r.error_name = "throttle_violation"
IsFailure(r) == ~Success(r) /\ ~IsThrottle(r)

QReqAt(k) == k \in 1..Len(io) /\ io[k].ev = "qreq"
QRespAt(k) == k \in 1..Len(io) /\ io[k].ev = "qresp"
AReqAt(k) == k \in 1..Len(io) /\ io[k].ev = "areq"
ARespAt(k) == k \in 1..Len(io) /\ io[k].ev = "aresp"
SleepAt(k) == k \in 1..Len(io) /\ io[k].ev = "sleep"

\* the wait each message of the model advertises, in seconds (0: none)
Advertised(msg) ==
    CASE msg = M5 -> 5
      [] msg = M10 -> 10
      [] msg = M3 -> 3
      [] OTHER -> 0

----------------------------------------------------------------------------
(* C1: the values the marker takes are strictly decreasing, and once a    *)
(* successful page is empty, or is non-empty with a minimum creation time *)
(* that is not strictly smaller than the marker, no question request is   *)
(* issued any more.                                                       *)

\* the step receives a successful page that must end the collection
C1_StopPage ==
    \E k \in 1..Len(NewEvents) :
        /\ NewEvents[k].ev = "qresp"
        /\ Success(NewEvents[k].resp)
        /\ \/ NewEvents[k].resp.items = <<>>
           \/ /\ marker # None
              /\ MinCreation(NewEvents[k].resp.items) >= marker

C1_Step ==
    /\ marker' # marker => marker' # None /\ (marker = None \/ marker' < marker)
    /\ C1_StopPage => pc' # "collect"
    /\ pc # "collect" =>
          /\ pc' # "collect"
          /\ \A k \in 1..Len(NewEvents) : NewEvents[k].ev # "qreq"

C1_CursorDecreasesThenStops == [][C1_Step]_vars

\* two pages moved the marker and a third, not older, ended the collection
C1_Witness ==
    /\ pc = "done"
    /\ batch_num = 3
    /\ QRequestCount = 3
    /\ \E k \in 1..Len(io) :
          /\ QRespAt(k) /\ Success(io[k].resp) /\ io[k].resp.items # <<>>
          /\ MinCreation(io[k].resp.items) >= marker
          /\ \A j \in (k + 1)..Len(io) : ~QReqAt(j)

----------------------------------------------------------------------------
(* C2: no two entries of the collected question list have the same        *)
(* question identifier, whatever the server answers.                      *)

C2_NoDuplicateItems ==
    \A a, b \in 1..Len(all_questions) :
        a # b => all_questions[a].question_id # all_questions[b].question_id

----------------------------------------------------------------------------
(* C3: in the answers loop a throttle_violation response is followed by a *)
(* sleep and then by a new request for the same chunk of identifiers, so  *)
(* that no chunk is left unresolved because of throttling.                *)

C3_ThrottledChunkRetried ==
    \A k \in 1..Len(io) :
        (ARespAt(k) /\ IsThrottle(io[k].resp)) =>
            /\ SleepAt(k + 1)
            /\ pc \in {"write", "done"} => (AReqAt(k + 2) /\ io[k + 2] = io[k - 1])

----------------------------------------------------------------------------
(* C4: in the question loop a throttle_violation response advertising     *)
(* "available in N seconds" causes exactly one sleep of N seconds, or of  *)
(* 60 seconds when no N can be read, and then the identical request; the  *)
(* marker and the collected questions are unchanged.                      *)

\* the step receives a rate-limit response to a question request
C4_Throttled(r) ==
    /\ Len(NewEvents) >= 2
    /\ NewEvents[2] = QResp(r)
    /\ IsThrottle(r)

C4_Step ==
    \A r \in QResponses(dataset) :
        C4_Throttled(r) =>
            /\ Len(NewEvents) = 3
            /\ NewEvents[3].ev = "sleep"
            /\ Advertised(r.error_message) > 0 =>
                  NewEvents[3].ms = 1000 * Advertised(r.error_message)
            /\ Advertised(r.error_message) = 0 => NewEvents[3].ms = 60000
            /\ marker' = marker
            /\ all_questions' = all_questions
            /\ pc' = "collect"

\* whatever follows the sleep of a throttled request is that request again
C4_Retry ==
    \A k \in 1..Len(io) :
        (QRespAt(k) /\ IsThrottle(io[k].resp)) =>
            /\ SleepAt(k + 1)
            /\ k + 2 <= Len(io) => io[k + 2] = io[k - 1]

C4_ThrottleSleepsOnceAndRetries == [][C4_Step]_vars /\ []C4_Retry

\* a request with a cursor bound was throttled for 5 seconds and reissued
C4_Witness ==
    \E k \in 1..Len(io) :
        /\ QRespAt(k) /\ IsThrottle(io[k].resp)
        /\ io[k].resp.error_message = M5
        /\ io[k + 1] = Sleep(5000)
        /\ QReqAt(k + 2)
        /\ io[k + 2].params.max # None
        /\ io[k + 2] = io[k - 1]

----------------------------------------------------------------------------
(* C5: no request for answers carries more than 100 identifiers, and no   *)
(* identifier is requested twice in the run, neither in one chunk nor in  *)
(* two chunks.                                                            *)

\* the requests for answers sent so far, in order
AReqs == SelectSeq(io, LAMBDA e : e.ev = "areq")

C5_ChunksSmallAndDisjoint ==
    /\ \A j \in 1..Len(AReqs) : Len(AReqs[j].ids) <= 100
    /\ \A j, l \in 1..Len(AReqs) :
         \A a \in 1..Len(AReqs[j].ids), b \in 1..Len(AReqs[l].ids) :
            (j # l \/ a # b) => AReqs[j].ids[a] # AReqs[l].ids[b]

----------------------------------------------------------------------------
(* C6: when the server answers k >= 1 requests with non-empty pages of    *)
(* strictly decreasing minimum creation time and then with an empty page, *)
(* and never with an error, the collected list is exactly the items of    *)
(* the k pages.  As claimed, exactly k requests are issued; as amended,   *)
(* exactly k + 1, the last one being the request the empty page answers.  *)

\* the responses to the question requests so far, in order
QResps == SelectSeq(io, LAMBDA e : e.ev = "qresp")

RECURSIVE C6_Flatten(_)
C6_Flatten(resps) ==
    IF resps = <<>> THEN <<>>
    ELSE Head(resps).resp.items \o C6_Flatten(Tail(resps))

C6_CleanRun ==
    /\ pc # "collect"
    /\ Len(QResps) >= 2
    /\ \A j \in 1..Len(QResps) : Success(QResps[j].resp)
    /\ QResps[Len(QResps)].resp.items = <<>>
    /\ \A j \in 1..(Len(QResps) - 1) : QResps[j].resp.items # <<>>
    /\ \A j \in 1..(Len(QResps) - 2) :
          MinCreation(QResps[j + 1].resp.items) < MinCreation(QResps[j].resp.items)

C6_AllPagesInKRequests ==
    C6_CleanRun =>
        /\ all_questions = C6_Flatten(QResps)
        /\ QRequestCount = Len(QResps) - 1

C6_AllPagesInKPlusOneRequests ==
    C6_CleanRun =>
        /\ all_questions = C6_Flatten(QResps)
        /\ QRequestCount = (Len(QResps) - 1) + 1

\* two non-empty pages, then the empty one; the run went on to its end
C6_Witness ==
    /\ pc = "done"
    /\ C6_CleanRun
    /\ Len(QResps) = 3
    /\ Len(all_questions) >= 3

----------------------------------------------------------------------------
(* C7: the output holds one data row per collected question, in the order *)
(* of collection: row k is the projection of the k-th question.           *)

C7_OneRowPerQuestion ==
    pc = "done" =>
        /\ Len(csv) = Len(all_questions) + 1
        /\ csv[1] = csv_fieldnames
        /\ \A k \in 1..Len(all_questions) :
              /\ csv[k + 1] = Row(all_questions[k], accepted_answers)
              /\ csv[k + 1][1] = (IF all_questions[k].title = Absent THEN ""
                                  ELSE all_questions[k].title)
              /\ csv[k + 1][5] = all_questions[k].is_answered

\* a file of three rows, one of them for a question without accepted answer
C7_Witness ==
    /\ pc = "done"
    /\ Len(all_questions) = 3
    /\ Len(csv) = 4
    /\ \E k \in 1..3 : ~HasAccepted(all_questions[k])

----------------------------------------------------------------------------
(* C8: the accepted-answer column of a row is empty when the question has *)
(* no accepted answer identifier, empty when it has one for which nothing *)
(* was stored, and the stored content otherwise.                          *)

C8_Column(k) == csv[k + 1][4]

C8_AnswerColumn ==
    pc = "done" =>
        \A k \in 1..Len(all_questions) :
            LET aid == all_questions[k].accepted_answer_id
            IN  /\ aid = None => C8_Column(k) = ""
                /\ (aid # None /\ aid \notin DOMAIN accepted_answers) =>
                      C8_Column(k) = ""
                /\ (aid # None /\ aid \in DOMAIN accepted_answers) =>
                      C8_Column(k) = accepted_answers[aid]

C8_Requested(aid) ==
    \E j \in 1..Len(AReqs) : aid \in Range(AReqs[j].ids)

\* one file with the three kinds of row
C8_Witness ==
    /\ pc = "done"
    /\ \E a, b, c \in 1..Len(all_questions) :
          /\ all_questions[a].accepted_answer_id = None
          /\ C8_Column(a) = ""
          /\ all_questions[b].accepted_answer_id # None
          /\ C8_Requested(all_questions[b].accepted_answer_id)
          /\ all_questions[b].accepted_answer_id \notin DOMAIN accepted_answers
          /\ C8_Column(b) = ""
          /\ all_questions[c].accepted_answer_id \in DOMAIN accepted_answers
          /\ C8_Column(c) = "<p>seven</p>"

----------------------------------------------------------------------------
(* C9: for n identifiers to resolve, exactly ceil(n / 100) requests are   *)
(* issued, the j-th for the j-th slice of 100 consecutive identifiers,    *)
(* the last slice being the shorter one.                                  *)

C9_Slice(j) ==
    SubSeq(accepted_answer_ids, 100 * (j - 1) + 1,
           IF 100 * j < Len(accepted_answer_ids) THEN 100 * j
           ELSE Len(accepted_answer_ids))

C9_OneRequestPerChunk ==
    pc \in {"resolve", "write", "done"} =>
        /\ \A j \in 1..Len(AReqs) : AReqs[j].ids = C9_Slice(j)
        /\ pc # "resolve" =>
              Len(AReqs) = (Len(accepted_answer_ids) + 99) \div 100

\* 150 identifiers: two requests, of 100 and of 50
C9_Witness ==
    /\ pc = "done"
    /\ Len(accepted_answer_ids) = 150
    /\ Len(AReqs) = 2
    /\ Len(AReqs[1].ids) = 100
    /\ Len(AReqs[2].ids) = 50

----------------------------------------------------------------------------
(* C10: a chunk whose request fails otherwise than by throttling is       *)
(* skipped: the step leaves the resolved map as it was and stays in the   *)
(* loop, every later chunk is still requested, and the file is written.   *)

C10_Step ==
    \A r \in AResponses(dataset) :
        (/\ Len(NewEvents) >= 2
         /\ NewEvents[1].ev = "areq"
         /\ NewEvents[2] = AResp(r)
         /\ IsFailure(r)) =>
            /\ accepted_answers' = accepted_answers
            /\ all_questions' = all_questions
            /\ pc' = "resolve"
            /\ i' = i + 100

\* the number of requests for answers among the first k events
C10_ChunkNo(k) == Cardinality({j \in 1..k : AReqAt(j)})

C10_LaterChunks ==
    \A k \in 1..Len(io) :
        (ARespAt(k) /\ IsFailure(io[k].resp)) =>
            /\ pc \in {"resolve", "write", "done"}
            /\ (pc # "resolve" /\ 100 * C10_ChunkNo(k) < Len(accepted_answer_ids)) =>
                  /\ AReqAt(k + 1)
                  /\ io[k + 1].ids = C9_Slice(C10_ChunkNo(k) + 1)
            /\ pc = "done" => Len(csv) = Len(all_questions) + 1

C10_FailedChunkSkipped == [][C10_Step]_vars /\ []C10_LaterChunks

\* the first chunk failed, the second was requested, the file was written
C10_Witness ==
    /\ pc = "done"
    /\ Len(csv) > 1
    /\ \E k \in 1..Len(io) :
          /\ ARespAt(k) /\ IsFailure(io[k].resp)
          /\ C10_ChunkNo(k) = 1
          /\ AReqAt(k + 1)
          /\ io[k + 1].ids = C9_Slice(2)
          /\ accepted_answers # EmptyMap

----------------------------------------------------------------------------
(* C11: a response to a question request that is neither a success nor a  *)
(* rate limit, or whose body cannot be parsed, ends the collection: no    *)
(* further question request, the questions of the earlier pages are kept  *)
(* as they are, and the later stages work on that partial list.           *)

C11_Step ==
    \A r \in QResponses(dataset) :
        (/\ Len(NewEvents) >= 2
         /\ NewEvents[1].ev = "qreq"
         /\ NewEvents[2] = QResp(r)
         /\ IsFailure(r)) =>
            /\ Len(NewEvents) = 2
            /\ all_questions' = all_questions
            /\ pc' # "collect"

\* the collection ended on a failed question request
C11_Aborted ==
    /\ QResps # <<>>
    /\ IsFailure(QResps[Len(QResps)].resp)

C11_PartialResult ==
    C11_Aborted =>
        /\ pc # "collect"
        /\ \A k \in 1..Len(io) :
              (QRespAt(k) /\ IsFailure(io[k].resp)) =>
                  \A j \in (k + 1)..Len(io) : ~QReqAt(j)
        /\ all_questions = C6_Flatten(SelectSeq(QResps, LAMBDA e : Success(e.resp)))
        /\ (pc = "resolve" /\ i = 0) =>
              accepted_answer_ids = AcceptedAnswerIds(all_questions)
        /\ pc = "done" =>
              csv = <<csv_fieldnames>>
                    \o [k \in 1..Len(all_questions) |->
                          Row(all_questions[k], accepted_answers)]

C11_AbortKeepsPartialResult == [][C11_Step]_vars /\ []C11_PartialResult

\* two pages were collected, the third request failed, the file has their rows
C11_Witness ==
    /\ pc = "done"
    /\ C11_Aborted
    /\ Len(QResps) = 3
    /\ Len(all_questions) >= 2
    /\ Len(csv) = Len(all_questions) + 1

----------------------------------------------------------------------------
(* C12: after a successful non-empty page that does not end the           *)
(* collection the loop sleeps exactly once before its next request: for   *)
(* the page's backoff when it has one, for the fixed half second          *)
(* otherwise.  After the page that ends the collection it does not sleep. *)

\* the step receives the successful page r
C12_Page(r) ==
    /\ Len(NewEvents) >= 2
    /\ NewEvents[1].ev = "qreq"
    /\ NewEvents[2] = QResp(r)
    /\ Success(r)

C12_Step ==
    \A r \in QResponses(dataset) :
        C12_Page(r) =>
            IF r.items = <<>> \/ (marker # None /\ MinCreation(r.items) >= marker)
            THEN Len(NewEvents) = 2
            ELSE /\ Len(NewEvents) = 3
                 /\ r.backoff # None => NewEvents[3] = Sleep(1000 * r.backoff)
                 /\ r.backoff = None => NewEvents[3] = Sleep(500)

\* a question request that is not the first follows one sleep and a response
C12_OneSleepBetween ==
    \A k \in 2..Len(io) :
        QReqAt(k) => (SleepAt(k - 1) /\ QRespAt(k - 2))

C12_PacingBetweenPages == [][C12_Step]_vars /\ []C12_OneSleepBetween

\* half a second after the first page, the advised 2 s after the second,
\* and nothing after the page that ended the collection
C12_Witness ==
    /\ pc = "done"
    /\ Len(io) >= 8
    /\ QRespAt(2) /\ io[2].resp.backoff = None /\ io[3] = Sleep(500) /\ QReqAt(4)
    /\ QRespAt(5) /\ io[5].resp.backoff = 2 /\ io[6] = Sleep(2000) /\ QReqAt(7)
    /\ QRespAt(8) /\ Success(io[8].resp) /\ ~SleepAt(9)

----------------------------------------------------------------------------
(* C13: the first question request carries no max; every later one        *)
(* carries max = c - 1, c being the minimum creation time of the most     *)
(* recent successful non-empty page; and max never increases from one     *)
(* request to the next.                                                   *)

\* the positions before k of the successful non-empty pages
C13_PagesBefore(k) ==
    {j \in 1..(k - 1) :
        QRespAt(j) /\ Success(io[j].resp) /\ io[j].resp.items # <<>>}

C13_LastPageBefore(k) ==
    CHOOSE j \in C13_PagesBefore(k) : \A l \in C13_PagesBefore(k) : l <= j

C13_BoundIsCursorMinusOne ==
    /\ \A k \in 1..Len(io) :
          QReqAt(k) =>
              IF C13_PagesBefore(k) = {}
              THEN io[k].params.max = None
              ELSE io[k].params.max
                     = MinCreation(io[C13_LastPageBefore(k)].resp.items) - 1
    /\ \A j, k \in 1..Len(io) :
          (QReqAt(j) /\ QReqAt(k) /\ j < k /\ io[j].params.max # None) =>
              /\ io[k].params.max # None
              /\ io[k].params.max <= io[j].params.max

\* three requests: without bound, then max = 2, then max = 0
C13_Witness ==
    /\ Len(io) >= 7
    /\ QReqAt(1) /\ io[1].params.max = None
    /\ QReqAt(4) /\ io[4].params.max = 2
    /\ QReqAt(7) /\ io[7].params.max = 0

----------------------------------------------------------------------------
(* C14: if every page is sorted by descending creation time and holds     *)
(* only questions created at or before the max that was asked for, then   *)
(* the collected list is sorted by descending creation time, and every    *)
(* question of a page is strictly older than every question of the pages  *)
(* before it.                                                             *)

MaxCreation(items) ==
    CHOOSE m \in {items[k].creation_date : k \in 1..Len(items)} :
        \A k \in 1..Len(items) : items[k].creation_date <= m

C14_Descending(items) ==
    \A k \in 1..(Len(items) - 1) :
        items[k].creation_date >= items[k + 1].creation_date

\* the positions in the trace of the successful non-empty pages
C14_PageAt(k) == QRespAt(k) /\ Success(io[k].resp) /\ io[k].resp.items # <<>>

C14_ServerHonoursRequest ==
    \A k \in 1..Len(io) :
        C14_PageAt(k) =>
            /\ C14_Descending(io[k].resp.items)
            /\ io[k - 1].params.max # None =>
                  MaxCreation(io[k].resp.items) <= io[k - 1].params.max

C14_SortedAcrossPages ==
    C14_ServerHonoursRequest =>
        /\ C14_Descending(all_questions)
        /\ \A j, k \in 1..Len(io) :
              (C14_PageAt(j) /\ C14_PageAt(k) /\ j < k) =>
                  MaxCreation(io[k].resp.items) < MinCreation(io[j].resp.items)

\* two pages, the second older than the first, four questions in all
C14_Witness ==
    /\ pc = "done"
    /\ C14_ServerHonoursRequest
    /\ Cardinality({k \in 1..Len(io) : C14_PageAt(k)}) >= 2
    /\ Len(all_questions) >= 4

----------------------------------------------------------------------------
(* C15: the marker is unset exactly when nothing has been collected, and  *)
(* otherwise equals the smallest creation time of all collected           *)
(* questions, at every iteration boundary and after the loop, also when   *)
(* the duplicate-marker check ended it.                                   *)

C15_MarkerIsOldestSeen ==
    /\ marker = None <=> all_questions = <<>>
    /\ all_questions # <<>> => marker = MinCreation(all_questions)

\* the collection was ended by a page that ignored the bound it was asked for
C15_Witness ==
    /\ pc = "done"
    /\ batch_num >= 3
    /\ marker = MinCreation(all_questions)
    /\ \E k \in 1..Len(io) :
          /\ C14_PageAt(k)
          /\ io[k - 1].params.max # None
          /\ MinCreation(io[k].resp.items) > io[k - 1].params.max

----------------------------------------------------------------------------
(* C16: when the server holds a finite list of questions, answers every   *)
(* request with the newest of them created at or before max, up to the    *)
(* page size, and never fails, then once the collection has stopped every *)
(* held question is in the collected list, also a question created in the *)
(* same second as the oldest question of a full page.                     *)

C16_AllHeldCollected ==
    pc # "collect" =>
        \A k \in 1..Len(Held(dataset)) :
            \E j \in 1..Len(all_questions) :
                all_questions[j].question_id = Held(dataset)[k].question_id

----------------------------------------------------------------------------
(* C17: creation times being at least 1 and rate-limit responses to       *)
(* question requests finitely many, the question loop stops after         *)
(* finitely many requests and the run reaches its end; the answers loop   *)
(* stops after finitely many requests whatever the server answers, rate   *)
(* limits without end included.                                           *)

\* the minimum creation time of the first page collected (0: none yet)
C17_FirstMarker ==
    LET pages == {k \in 1..Len(io) : C14_PageAt(k)}
    IN  IF pages = {} THEN 0
        ELSE MinCreation(io[MinOf(pages)].resp.items)

\* every request that is not throttled lowers the marker or is the last one
C17_RequestsBounded ==
    /\ QRequestCount <= QThrottleCount + C17_FirstMarker + 1
    /\ Len(AReqs) <= (Len(accepted_answer_ids) + 99) \div 100

C17_Ended == pc \in {"done", "exited"}

\* the model stops asking at MaxQRequests question requests
C17_Capped == pc = "collect" /\ QRequestCount >= MaxQRequests

\* the script has a next step (Handoff by its guard, the others by ENABLED)
HasNextStep ==
    \/ pc = "handoff" /\ all_questions # <<>>
    \/ ENABLED (QIteration \/ ExitEmpty \/ AIteration \/ AFinished \/ WriteCsv)

\* both loops are bounded, and before the end the script always has a next step
C17_Terminates ==
    /\ C17_RequestsBounded
    /\ C17_Ended \/ C17_Capped \/ HasNextStep

\* both loops were rate limited and the run still reached its end
C17_Witness ==
    /\ pc = "done"
    /\ QThrottleCount = 1
    /\ QRequestCount = 3
    /\ \E k \in 1..Len(io) : ARespAt(k) /\ IsThrottle(io[k].resp)

----------------------------------------------------------------------------
(* C18: the stages run one after the other: no request for answers before *)
(* the last question request is answered, no row written before the last  *)
(* request for answers is answered, and the collected list is changed     *)
(* neither by the answers stage nor by the writer.                        *)

C18_AnswerEvent(e) == e.ev \in {"areq", "aresp"}
C18_QuestionEvent(e) == e.ev \in {"qreq", "qresp"}

C18_Order ==
    /\ \A j, k \in 1..Len(io) :
          (j < k /\ C18_AnswerEvent(io[j])) => ~C18_QuestionEvent(io[k])
    /\ csv # <<>> => pc = "done"

C18_Step ==
    /\ csv # <<>> => io' = io
    /\ csv' # csv => (pc = "write" /\ i >= Len(accepted_answer_ids))
    /\ (\E k \in 1..Len(NewEvents) : C18_AnswerEvent(NewEvents[k])) => pc = "resolve"
    /\ pc # "collect" => all_questions' = all_questions

C18_StagesInSequence == [][C18_Step]_vars /\ []C18_Order

\* questions were asked for, then answers, then the file was written
C18_Witness ==
    /\ pc = "done"
    /\ QRequestCount >= 2
    /\ Len(AReqs) >= 2
    /\ Len(csv) > 1

----------------------------------------------------------------------------
(* C19: when the collection ends with no question at all, the run stops:  *)
(* no request for answers is made and no file is written, not even its    *)
(* header row.                                                            *)

C19_EmptyResultExits ==
    /\ (pc # "collect" /\ all_questions = <<>>) =>
          /\ pc \in {"handoff", "exited"}
          /\ AReqs = <<>>
          /\ csv = <<>>
    /\ pc = "exited" => (all_questions = <<>> /\ ~HasNextStep)

\* the first request failed after a rate limit: the script has exited
C19_Witness ==
    /\ pc = "exited"
    /\ QRequestCount = 2
    /\ IsFailure(QResps[2].resp)
    /\ csv = <<>>
====
